---- MODULE Spec2Model ----
(***************************************************************************)
(* offsetable_struct: the offsets() function generated by the              *)
(* offsetable_struct! macro (src/src/lib.rs) and util::align_up            *)
(* (src/src/util.rs), over a scaled-down machine word.                     *)
(*                                                                         *)
(* Spec        runs offsets() over a struct declaration: one PlaceField    *)
(*             step per field of the macro's repetition, then Return.      *)
(* SpecAlignUp calls the public util::align_up directly with any base and  *)
(*             any align of the machine word.                              *)
(***************************************************************************)
EXTENDS Integers, Sequences, FiniteSets

VARIABLES
    fields,           \* the declared field types, in order: [size, align]
    overflow_checks,  \* build profile: TRUE = `+` panics on overflow, FALSE = wraps
    offsets,          \* the `let $field` bindings made so far, in declaration order
    current_offset,   \* the shadowed `current_offset` binding
    pc,               \* "place" | "returned" | "panicked"
    result,           \* the returned $offsets_name struct, NoResult before
    au                \* a direct call of util::align_up: [state, base, align, ret],
                      \* state "none" | "called" | "returned"

vars == <<fields, overflow_checks, offsets, current_offset, pc, result, au>>

\* ---------------------------------------------------------------- bounds
\* usize::BITS, scaled down
WordBits == 6
\* number of fields of a declared struct
MaxFields == 3

\* ---------------------------------------------------------- machine word
RECURSIVE Pow2(_)
Pow2(n) == IF n = 0 THEN 1 ELSE 2 * Pow2(n - 1)

WordMod == Pow2(WordBits)
usize_MAX == WordMod - 1
isize_MAX == Pow2(WordBits - 1) - 1
Word == 0..usize_MAX

wrapping_add(a, b) == (a + b) % WordMod
wrapping_sub(a, b) == (a + WordMod - b) % WordMod

\* `!x` on usize
BitNot(x) == usize_MAX - x

RECURSIVE BitAndN(_, _, _)
BitAndN(x, y, n) ==
    IF n = 0 THEN 0
    ELSE (x % 2) * (y % 2) + 2 * BitAndN(x \div 2, y \div 2, n - 1)

\* `x & y` on usize
BitAnd(x, y) == BitAndN(x, y, WordBits)

\* ------------------------------------------------------------- mutants
\* forgets the `- 1`: rounds an aligned base up to the next multiple
align_up_no_sub1(base, align) ==
    BitAnd(wrapping_add(base, align), BitNot(wrapping_sub(align, 1)))

\* forgets the mask
align_up_no_mask(base, align) == wrapping_add(base, wrapping_sub(align, 1))

\* masks without adding first: rounds down
align_up_round_down(base, align) == BitAnd(base, BitNot(wrapping_sub(align, 1)))

\* division-based rounding, right for every align >= 1
align_up_by_division(base, align) ==
    IF align = 0 THEN 0
    ELSE (((base + align - 1) \div align) * align) % WordMod

\* -------------------------------------------------------------- util.rs
align_up(base, align) ==
    BitAnd(wrapping_add(base, wrapping_sub(align, 1)), BitNot(wrapping_sub(align, 1)))

\* ------------------------------------------------- the declared structs
IsPow2(a) == \E k \in 0..(WordBits - 1) : a = Pow2(k)

\* std::mem::align_of::<T>() is a power of two; std::mem::size_of::<T>() is a
\* multiple of it and at most isize::MAX
Sizes == {0, 1, 4, 16, isize_MAX}
FieldTypes ==
    {t \in [size : Sizes, align : {a \in Word : IsPow2(a)}] : t.size % t.align = 0}

FieldLists == UNION {[1..n -> FieldTypes] : n \in 0..MaxFields}

NoResult == <<-1>>
NoCall == [state |-> "none", base |-> 0, align |-> 0, ret |-> 0]

\* ---------------------------------------------------------------- lib.rs
Init ==
    /\ fields \in FieldLists
    /\ overflow_checks \in BOOLEAN
    /\ offsets = <<>>
    /\ current_offset = 0
    /\ pc = "place"
    /\ result = NoResult
    /\ au = NoCall

\* mutant: the cursor is not advanced by the field's size
PlaceField_no_size ==
    /\ pc = "place"
    /\ Len(offsets) < Len(fields)
    /\ LET ftype == fields[Len(offsets) + 1]
           field == align_up(current_offset, ftype.align)
       IN  /\ offsets' = Append(offsets, field)
           /\ current_offset' = field
           /\ pc' = pc
    /\ UNCHANGED <<fields, overflow_checks, result, au>>

\* mutant: every field takes up at least one byte
PlaceField_min_one ==
    /\ pc = "place"
    /\ Len(offsets) < Len(fields)
    /\ LET ftype == fields[Len(offsets) + 1]
           field == align_up(current_offset, ftype.align)
           sum   == field + (IF ftype.size = 0 THEN 1 ELSE ftype.size)
       IN  /\ offsets' = Append(offsets, field)
           /\ IF sum > usize_MAX /\ overflow_checks
              THEN pc' = "panicked" /\ UNCHANGED current_offset
              ELSE pc' = pc /\ current_offset' = sum % WordMod
    /\ UNCHANGED <<fields, overflow_checks, result, au>>

\* mutant: placing a field re-aligns the fields before it to its alignment
PlaceField_realign ==
    /\ pc = "place"
    /\ Len(offsets) < Len(fields)
    /\ LET ftype == fields[Len(offsets) + 1]
           field == align_up(current_offset, ftype.align)
           sum   == field + ftype.size
       IN  /\ offsets' = Append([i \in 1..Len(offsets) |->
                                    align_up(offsets[i], ftype.align)], field)
           /\ IF sum > usize_MAX /\ overflow_checks
              THEN pc' = "panicked" /\ UNCHANGED current_offset
              ELSE pc' = pc /\ current_offset' = sum % WordMod
    /\ UNCHANGED <<fields, overflow_checks, result, au>>

\* one round of the $( ... )* repetition of offsets()
PlaceField ==
    /\ pc = "place"
    /\ Len(offsets) < Len(fields)
    /\ LET ftype == fields[Len(offsets) + 1]
           field == align_up(current_offset, ftype.align)
           sum   == field + ftype.size
       IN  /\ offsets' = Append(offsets, field)
           /\ IF sum > usize_MAX /\ overflow_checks
              THEN pc' = "panicked" /\ UNCHANGED current_offset
              ELSE pc' = pc /\ current_offset' = sum % WordMod
    /\ UNCHANGED <<fields, overflow_checks, result, au>>

\* mutant: the last field is left out of the offsets struct
Return_drop_last ==
    /\ pc = "place"
    /\ Len(offsets) = Len(fields)
    /\ result' = [i \in 1..(Len(offsets) - 1) |-> offsets[i]]
    /\ pc' = "returned"
    /\ UNCHANGED <<fields, overflow_checks, offsets, current_offset, au>>

\* $offsets_name { $( $field ),* }
Return ==
    /\ pc = "place"
    /\ Len(offsets) = Len(fields)
    /\ result' = [i \in 1..Len(offsets) |-> offsets[i]]
    /\ pc' = "returned"
    /\ UNCHANGED <<fields, overflow_checks, offsets, current_offset, au>>

Next == PlaceField \/ Return

Spec == Init /\ [][Next]_vars

\* ------------------------------------------- util::align_up, called directly
InitAlignUp ==
    /\ fields = <<>>
    /\ overflow_checks = FALSE
    /\ offsets = <<>>
    /\ current_offset = 0
    /\ pc = "place"
    /\ result = NoResult
    /\ au \in [state : {"called"}, base : Word, align : Word, ret : {0}]

CallAlignUp ==
    /\ au.state = "called"
    /\ au' = [au EXCEPT !.state = "returned", !.ret = align_up(au.base, au.align)]
    /\ UNCHANGED <<fields, overflow_checks, offsets, current_offset, pc, result>>

NextAlignUp == CallAlignUp

SpecAlignUp == InitAlignUp /\ [][NextAlignUp]_vars

\* =================================================================== claims
IsMultiple(m, a) == \E k \in 0..(m + 1) : m = k * a

\* r is the smallest multiple of a that is >= c
IsSmallestMultipleAtLeast(r, c, a) ==
    /\ r >= c
    /\ IsMultiple(r, a)
    /\ \A m \in c..(r - 1) : ~IsMultiple(m, a)

\* division-based round-up of c to a multiple of a, in the integers
DivRoundUp(c, a) == ((c + a - 1) \div a) * a

\* end of field i in the integers; 0 before the first field
End(i) == IF i = 0 THEN 0 ELSE offsets[i] + fields[i].size

\* a multiple of field i's alignment that is >= the end of field i-1 fits
\* in the machine word
Representable(i) == DivRoundUp(End(i - 1), fields[i].align) <= usize_MAX

Foo == << [size |-> 4, align |-> 4], [size |-> 16, align |-> 4], [size |-> 1, align |-> 1] >>

\* C1 as stated: every offset is the smallest multiple of its field's alignment
\* that is >= the end of the previous field, and equals the division-based
\* round-up of that end.
C1_Tightness_AsStated ==
    \A i \in 1..Len(offsets) :
        /\ IsSmallestMultipleAtLeast(offsets[i], End(i - 1), fields[i].align)
        /\ offsets[i] = DivRoundUp(End(i - 1), fields[i].align)

\* C1 amended: whenever the round-up of the previous field's end to the
\* field's alignment is representable in the machine word, the offset is the
\* smallest multiple of the alignment >= that end, and equals the
\* division-based round-up.
C1_Tightness ==
    \A i \in 1..Len(offsets) :
        Representable(i) =>
            /\ IsSmallestMultipleAtLeast(offsets[i], End(i - 1), fields[i].align)
            /\ offsets[i] = DivRoundUp(End(i - 1), fields[i].align)

\* the reference test: f32, [f32; 4], u8 at 0, 4, 20
C1_Witness ==
    /\ pc = "returned"
    /\ fields = Foo
    /\ result = <<0, 4, 20>>

\* C2: every offset is a multiple of its field's alignment.
C2_AlignmentSatisfied ==
    \A i \in 1..Len(offsets) : offsets[i] % fields[i].align = 0

\* a field that needed padding, placed on its alignment
C2_Witness ==
    /\ pc = "returned"
    /\ \E i \in 2..Len(result) :
          /\ fields[i].align >= 4
          /\ End(i - 1) % fields[i].align # 0
          /\ result[i] % fields[i].align = 0
          /\ result[i] > End(i - 1)

\* C3 as stated: over the whole machine word, every field starts at or after
\* the end of the field before it.
C3_NoOverlap_AsStated ==
    \A i \in 2..Len(offsets) : offsets[i] >= End(i - 1)

\* C3 amended: every field whose rounded-up position is representable in the
\* machine word starts at or after the end of the field before it, and the
\* cursor left behind is not below that field's offset when its end is
\* representable too.
C3_NoOverlap ==
    /\ \A i \in 2..Len(offsets) : Representable(i) => offsets[i] >= End(i - 1)
    /\ \A i \in 1..Len(offsets) :
          (i = Len(offsets) /\ pc # "panicked" /\ End(i) <= usize_MAX)
              => current_offset = End(i)

\* three fields laid out with padding and no overlap
C3_Witness ==
    /\ pc = "returned"
    /\ Len(result) >= 3
    /\ \A i \in 2..Len(result) : fields[i - 1].size > 0 /\ result[i] >= End(i - 1)
    /\ \E i \in 2..Len(result) : result[i] > End(i - 1)

\* C4: the first field's offset is 0.
C4_ZeroOffset ==
    /\ Len(offsets) >= 1 => offsets[1] = 0
    /\ (pc = "returned" /\ Len(fields) >= 1) => result[1] = 0

\* an over-aligned, non-empty first field at offset 0
C4_Witness ==
    /\ pc = "returned"
    /\ Len(fields) >= 1
    /\ fields[1].align >= 16
    /\ fields[1].size > 0
    /\ result[1] = 0

\* C5: the returned struct holds one offset per declared field, in declaration
\* order: entry i is the position computed for field i from the end of field
\* i-1; the empty declaration yields the empty struct.
C5_Shape ==
    pc = "returned" =>
        /\ Len(result) = Len(fields)
        /\ \A i \in 1..Len(fields) :
              result[i] =
                  DivRoundUp((IF i = 1 THEN 0 ELSE result[i - 1] + fields[i - 1].size) % WordMod,
                             fields[i].align) % WordMod
        /\ (fields = <<>> => result = <<>>)

\* a full-length result whose entries differ
C5_Witness ==
    /\ pc = "returned"
    /\ Len(fields) >= 3
    /\ Len(result) = Len(fields)
    /\ result[1] < result[2]
    /\ result[2] < result[3]

\* the empty declaration returned the empty struct
C5_WitnessEmpty ==
    /\ pc = "returned"
    /\ fields = <<>>
    /\ result = <<>>

\* C7: a zero-size field sits on a multiple of its alignment and leaves the
\* cursor at its own offset, so the next field's offset is the zero-size
\* field's offset rounded up (in the machine word) to the next alignment.
C7_ZeroSize ==
    \A i \in 1..Len(offsets) :
        fields[i].size = 0 =>
            /\ offsets[i] % fields[i].align = 0
            /\ i = Len(offsets) => current_offset = offsets[i]
            /\ i < Len(offsets) =>
                  offsets[i + 1] = DivRoundUp(offsets[i], fields[i + 1].align) % WordMod

\* a zero-size field placed after padding, followed by a field at the same offset
C7_Witness ==
    /\ pc = "returned"
    /\ \E i \in 2..(Len(result) - 1) :
          /\ fields[i].size = 0
          /\ result[i] > End(i - 1)
          /\ result[i + 1] = result[i]
          /\ fields[i + 1].size > 0

C6_MalformedUndetected ==
    (au.state = "returned" /\ ~IsPow2(au.align)) =>
        /\ au.ret \in Word
        /\ \E c \in Word :
              /\ c + au.align <= WordMod
              /\ ~IsSmallestMultipleAtLeast(align_up(c, au.align), c, au.align)

\* align 6, base 1 returns 2, which is no multiple of 6
C6_Witness ==
    /\ au.state = "returned"
    /\ au.align = 6
    /\ au.base = 1
    /\ au.ret = 2

\* C8: align_up(cursor, 1) = cursor for every cursor of the machine word.
C8_AlignOneNoOp ==
    (au.state = "returned" /\ au.align = 1) => au.ret = au.base

\* the largest cursor stays put
C8_Witness ==
    /\ au.state = "returned"
    /\ au.align = 1
    /\ au.base = usize_MAX
    /\ au.ret = usize_MAX

\* C9: for a power-of-two align, align_up of align_up's result is that
\* result, and an aligned base is returned unchanged, wrap-around included.
C9_Idempotent ==
    (au.state = "returned" /\ IsPow2(au.align)) =>
        /\ align_up(au.ret, au.align) = au.ret
        /\ au.base % au.align = 0 => au.ret = au.base

\* a base for which base + align - 1 wraps
C9_Witness ==
    /\ au.state = "returned"
    /\ au.align = 4
    /\ au.base = usize_MAX
    /\ au.ret = 0

====
